---- MODULE Spec2Model ----
(***************************************************************************)
(* Model of the policy enforcement pipeline of gitops-kustomz:             *)
(* cmd/gitops-kustomz/main.go (run, processEnvironment,                    *)
(* buildMultiEnvReport), pkg/policy/evaluator.go (Evaluate,                *)
(* evaluatePolicyWithConftest, determineEnforcementLevel, CheckOverrides,  *)
(* ApplyOverrides, Enforce), pkg/policy/reporter.go (GenerateReport) and   *)
(* pkg/config/config.go (ValidateComplianceConfig).                        *)
(***************************************************************************)
EXTENDS Integers, Sequences, FiniteSets, TLC

\* ---------------------------------------------------------------- bounds
\* Instants are 1..MaxTime; the wall clock never passes MaxTime.
MaxTime == 2

\* The most comments a pull request holds before the report is posted.
MaxComments == 3

\* The number of goroutines calling Diff at the same time.
MaxCalls == 2

\* A nil *time.Time (an unset timestamp of EnforcementConfig).
NoTime == 0

Times == 1..MaxTime

\* ------------------------------------------------------------- constants
POLICY_STATUS_PASS == "PASS"
POLICY_STATUS_FAIL == "FAIL"
POLICY_STATUS_ERROR == "ERROR"

POLICY_LEVEL_DISABLED == "DISABLED"
POLICY_LEVEL_RECOMMEND == "RECOMMEND"
POLICY_LEVEL_WARNING == "WARNING"
POLICY_LEVEL_BLOCK == "BLOCK"

\* Policy IDs: the keys of ComplianceConfig.Policies.
PolicyIDs == {"p1", "p2"}

\* opts.environments, in the order the caller requested them.
Environments == <<"stg", "prod">>

\* ------------------------------------------------------- sequence helpers
Range(s) == {s[i] : i \in 1..Len(s)}

\* Number of elements of the sequence s for which Test holds.
CountIf(s, Test(_)) == Cardinality({i \in 1..Len(s) : Test(s[i])})

\* strings.Contains(body, substr) on strings modelled as character sequences.
Contains(body, substr) ==
  \E i \in 1..(Len(body) + 1) :
    /\ i + Len(substr) - 1 <= Len(body)
    /\ SubSeq(body, i, i + Len(substr) - 1) = substr

\* ------------------------------------------------------ policy configuration
\* EnforcementConfig values: every combination of set and unset timestamps.
Schedules ==
  [InEffectAfter : {NoTime} \cup Times,
   IsWarningAfter : {NoTime} \cup Times,
   IsBlockingAfter : {NoTime} \cup Times]

\* The schedules the run's configuration file is drawn from: a policy that
\* only sets isBlockingAfter, one that warns from the first instant and blocks
\* from the last, one that comes into effect at the last instant, and one
\* whose isWarningAfter precedes its inEffectAfter.
RunSchedules ==
  { [InEffectAfter |-> NoTime, IsWarningAfter |-> NoTime, IsBlockingAfter |-> 1],
    [InEffectAfter |-> 1, IsWarningAfter |-> 1, IsBlockingAfter |-> MaxTime],
    [InEffectAfter |-> MaxTime, IsWarningAfter |-> NoTime, IsBlockingAfter |-> NoTime],
    [InEffectAfter |-> MaxTime, IsWarningAfter |-> 1, IsBlockingAfter |-> NoTime] }

\* Override.Comment values: "" (no override command) or "/a".
OverrideComments == { <<>>, <<"/", "a">> }

\* The display name configured for each policy ID.
PolicyNames == [id \in PolicyIDs |-> IF id = "p1" THEN "High Availability" ELSE "Ingress TLS"]

\* PolicyConfig records the configuration file can hold for policy id: p1 may
\* declare the override command, p2 declares none.
PolicyConfigs(id) ==
  { [Name |-> PolicyNames[id], Type |-> "opa", FilePath |-> "f.rego",
     Enforcement |-> [InEffectAfter |-> s.InEffectAfter,
                      IsWarningAfter |-> s.IsWarningAfter,
                      IsBlockingAfter |-> s.IsBlockingAfter,
                      Override |-> [Comment |-> c]]]
    : s \in RunSchedules,
      c \in IF id = "p1" THEN OverrideComments ELSE { <<>> } }

\* The comment lists GetComments returns for the pull request: a comment
\* holding the override command inside a longer text, or a comment without it
\* (a local run has no comments at all).
CommentLists ==
  { << [ID |-> 1, Body |-> <<"x", "/", "a">>] >>,
    << [ID |-> 1, Body |-> <<"/", "b">>] >> }

\* ValidateComplianceConfig: TRUE iff it returns nil.
ValidateComplianceConfig(config) ==
  /\ DOMAIN config # {}
  /\ \A id \in DOMAIN config :
       LET policy == config[id] IN
         /\ policy.Name # ""
         /\ policy.Type # ""
         /\ policy.Type = "opa"
         /\ policy.FilePath # ""
         /\ ~ ( /\ policy.Enforcement.InEffectAfter # NoTime
                /\ policy.Enforcement.IsWarningAfter # NoTime
                /\ policy.Enforcement.IsWarningAfter < policy.Enforcement.InEffectAfter )
         /\ ~ ( /\ policy.Enforcement.IsWarningAfter # NoTime
                /\ policy.Enforcement.IsBlockingAfter # NoTime
                /\ policy.Enforcement.IsBlockingAfter < policy.Enforcement.IsWarningAfter )

\* determineEnforcementLevel, with time.Now() passed as t.
determineEnforcementLevel(enforcement, t) ==
  IF enforcement.InEffectAfter # NoTime /\ t < enforcement.InEffectAfter
    THEN POLICY_LEVEL_DISABLED
  ELSE IF enforcement.IsBlockingAfter # NoTime /\ ~(t < enforcement.IsBlockingAfter)
    THEN POLICY_LEVEL_BLOCK
  ELSE IF enforcement.IsWarningAfter # NoTime /\ ~(t < enforcement.IsWarningAfter)
    THEN POLICY_LEVEL_WARNING
  ELSE IF enforcement.InEffectAfter # NoTime
    THEN POLICY_LEVEL_RECOMMEND
  ELSE POLICY_LEVEL_DISABLED

\* ------------------------------------------------------------ check backend
\* What evaluateResourceWithOPA returns: (violations, err).
BackendOutcomes ==
  { [violations |-> <<>>, err |-> FALSE],
    [violations |-> <<"v">>, err |-> FALSE],
    [violations |-> <<>>, err |-> TRUE] }

\* What it returns under a context that is done or not: the command is bound
\* to ctx (exec.CommandContext, evaluator.go:186), so once ctx is done it
\* fails and err is set.
BackendOutcomesUnder(done) ==
  IF done THEN { out \in BackendOutcomes : out.err } ELSE BackendOutcomes

\* evaluatePolicyWithConftest without the early return for a DISABLED policy.
evaluatePolicyWithConftest_NoSkip(id, policy, t, out) ==
  LET result == [PolicyID |-> id, PolicyName |-> policy.Name,
                 Status |-> POLICY_STATUS_PASS, Violations |-> <<>>,
                 Error |-> "", Level |-> determineEnforcementLevel(policy.Enforcement, t),
                 Overridden |-> FALSE]
  IN IF out.err
       THEN [result EXCEPT !.Status = POLICY_STATUS_ERROR,
                           !.Error = "Policy evaluation failed"]
     ELSE IF Len(out.violations) > 0
       THEN [result EXCEPT !.Violations = out.violations,
                           !.Status = POLICY_STATUS_FAIL]
     ELSE result

\* evaluatePolicyWithConftest reporting a backend error as a failed policy.
evaluatePolicyWithConftest_ErrAsFail(id, policy, t, out) ==
  LET lvl == determineEnforcementLevel(policy.Enforcement, t)
      result == [PolicyID |-> id, PolicyName |-> policy.Name,
                 Status |-> POLICY_STATUS_PASS, Violations |-> <<>>,
                 Error |-> "", Level |-> lvl, Overridden |-> FALSE]
  IN IF lvl = "DISABLED" THEN result
     ELSE IF out.err
       THEN [result EXCEPT !.Status = POLICY_STATUS_FAIL,
                           !.Error = "Policy evaluation failed"]
     ELSE IF Len(out.violations) > 0
       THEN [result EXCEPT !.Violations = out.violations,
                           !.Status = POLICY_STATUS_FAIL]
     ELSE result

\* evaluatePolicyWithConftest: the PolicyResult of policy id at instant t, when
\* the backend answers out (the backend is not invoked for a DISABLED policy).
evaluatePolicyWithConftest(id, policy, t, out) ==
  LET level == determineEnforcementLevel(policy.Enforcement, t)
      result == [PolicyID |-> id, PolicyName |-> policy.Name,
                 Status |-> POLICY_STATUS_PASS, Violations |-> <<>>,
                 Error |-> "", Level |-> level, Overridden |-> FALSE]
  IN IF level = "DISABLED" THEN result
     ELSE IF out.err
       THEN [result EXCEPT !.Status = POLICY_STATUS_ERROR,
                           !.Error = "Policy evaluation failed"]
     ELSE IF Len(out.violations) > 0
       THEN [result EXCEPT !.Violations = out.violations,
                           !.Status = POLICY_STATUS_FAIL]
     ELSE result

\* The EvaluationResult Evaluate starts from.
NewEvaluationResult(config) ==
  [TotalPolicies |-> Cardinality(DOMAIN config),
   PassedPolicies |-> 0, FailedPolicies |-> 0, ErroredPolicies |-> 0,
   PolicyResults |-> <<>>]

\* One iteration of the loop of Evaluate: append the result, count its status.
EvaluateStep(result, policyResult) ==
  [result EXCEPT
     !.PolicyResults = Append(@, policyResult),
     !.PassedPolicies = IF policyResult.Status = POLICY_STATUS_PASS THEN @ + 1 ELSE @,
     !.FailedPolicies = IF policyResult.Status = POLICY_STATUS_FAIL THEN @ + 1 ELSE @,
     !.ErroredPolicies = IF policyResult.Status = POLICY_STATUS_ERROR THEN @ + 1 ELSE @]

\* The loop of Evaluate giving up at the first policy whose check errored.
EvaluateLoopRest_StopOnError(rest, id, policyResult) ==
  IF policyResult.Status = POLICY_STATUS_ERROR THEN {} ELSE rest \ {id}

\* The loop of Evaluate, evaluator.go:125-137: the policies still to evaluate
\* once policy id has its result; no status ends the loop early.
EvaluateLoopRest(rest, id, policyResult) == rest \ {id}

\* CheckOverrides: the IDs of the policies whose override command occurs in
\* some comment body (the keys of the returned map).
CheckOverrides(comments, config) ==
  { policyID \in DOMAIN config :
      /\ config[policyID].Enforcement.Override.Comment # <<>>
      /\ \E i \in 1..Len(comments) :
           Contains(comments[i].Body, config[policyID].Enforcement.Override.Comment) }

\* ApplyOverrides marking an overridden policy only where it failed.
ApplyOverrides_OnlyFailures(result, overrides) ==
  [result EXCEPT !.PolicyResults =
     [i \in 1..Len(@) |->
        IF @[i].PolicyID \in overrides /\ @[i].Status = POLICY_STATUS_FAIL
          THEN [@[i] EXCEPT !.Overridden = TRUE] ELSE @[i]]]

\* ApplyOverrides: mark the results of the overridden policies.
ApplyOverrides(result, overrides) ==
  [result EXCEPT !.PolicyResults =
     [i \in 1..Len(@) |->
        IF @[i].PolicyID \in overrides THEN [@[i] EXCEPT !.Overridden = TRUE] ELSE @[i]]]

\* Enforce forgetting to skip the overridden policies.
EnforcedFailure_IgnoringOverrides(pr, overrides, level) ==
  /\ pr.Status = POLICY_STATUS_FAIL
  /\ pr.Level = level

\* Enforce skipping only the policies that passed.
EnforcedFailure_CountingErrors(pr, overrides, level) ==
  /\ pr.Status # POLICY_STATUS_PASS
  /\ pr.PolicyID \notin overrides
  /\ pr.Level = level

\* The results Enforce counts at the given level.
EnforcedFailure(pr, overrides, level) ==
  /\ pr.Status = POLICY_STATUS_FAIL
  /\ pr.PolicyID \notin overrides
  /\ pr.Level = level

\* Enforce looking at the warning count before the blocking count.
Enforce_WarningFirst(result, overrides) ==
  LET IsBlocking(pr) == EnforcedFailure(pr, overrides, POLICY_LEVEL_BLOCK)
      IsWarning(pr) == EnforcedFailure(pr, overrides, POLICY_LEVEL_WARNING)
      blockingCount == CountIf(result.PolicyResults, IsBlocking)
      warningCount == CountIf(result.PolicyResults, IsWarning)
  IN [ShouldBlock |-> blockingCount > 0,
      ShouldWarn |-> warningCount > 0,
      Summary |-> IF warningCount > 0 THEN <<warningCount, "warning policy failure(s)">>
                  ELSE IF blockingCount > 0 THEN <<blockingCount, "blocking policy failure(s)">>
                  ELSE <<0, "All checks passed">>]

\* Enforce: the EnforcementResult of one environment. The summary is the pair
\* of the count and the text Sprintf joins, the count being 0 where the text
\* carries none.
Enforce(result, overrides) ==
  LET IsBlocking(pr) == EnforcedFailure(pr, overrides, POLICY_LEVEL_BLOCK)
      IsWarning(pr) == EnforcedFailure(pr, overrides, POLICY_LEVEL_WARNING)
      blockingCount == CountIf(result.PolicyResults, IsBlocking)
      warningCount == CountIf(result.PolicyResults, IsWarning)
  IN [ShouldBlock |-> blockingCount > 0,
      ShouldWarn |-> warningCount > 0,
      Summary |-> IF blockingCount > 0 THEN <<blockingCount, "blocking policy failure(s)">>
                  ELSE IF warningCount > 0 THEN <<warningCount, "warning policy failure(s)">>
                  ELSE <<0, "All checks passed">>]

\* GenerateReport counting the overridden failures too.
ReportedFailure_CountingOverridden(pr, level) ==
  pr.Status = "FAIL" /\ pr.Level = level

\* The failures GenerateReport counts at the given level.
ReportedFailure(pr, level) ==
  pr.Status = "FAIL" /\ ~pr.Overridden /\ pr.Level = level

\* GenerateReport: the PolicyReportData of one environment.
GenerateReport(result) ==
  LET IsBlock(pr) == ReportedFailure(pr, "BLOCK")
      IsWarn(pr) == ReportedFailure(pr, "WARNING")
      IsRecommend(pr) == ReportedFailure(pr, "RECOMMEND")
  IN [TotalPolicies |-> result.TotalPolicies,
      PassedPolicies |-> result.PassedPolicies,
      FailedPolicies |-> result.FailedPolicies,
      ErroredPolicies |-> result.ErroredPolicies,
      BlockingFailures |-> CountIf(result.PolicyResults, IsBlock),
      WarningFailures |-> CountIf(result.PolicyResults, IsWarn),
      RecommendFailures |-> CountIf(result.PolicyResults, IsRecommend),
      Details |-> [i \in 1..Len(result.PolicyResults) |->
                     LET pr == result.PolicyResults[i] IN
                       [Name |-> pr.PolicyName, Status |-> pr.Status,
                        Level |-> pr.Level, Overridden |-> pr.Overridden,
                        Error |-> pr.Error, Violations |-> pr.Violations]]]

\* The EnvSummary buildMultiEnvReport copies from a PolicyReportData.
EnvSummary(policyReport) ==
  [TotalPolicies |-> policyReport.TotalPolicies,
   PassedPolicies |-> policyReport.PassedPolicies,
   FailedPolicies |-> policyReport.FailedPolicies,
   ErroredPolicies |-> policyReport.ErroredPolicies,
   BlockingFailures |-> policyReport.BlockingFailures,
   WarningFailures |-> policyReport.WarningFailures,
   RecommendFailures |-> policyReport.RecommendFailures]

RECURSIVE AddDetails(_, _, _)
\* The inner loop of buildMultiEnvReport, main.go:509-525: the rows of the
\* matrix are keyed by the display name of the detail.
AddDetails(policyMap, environment, details) ==
  IF details = <<>> THEN policyMap
  ELSE LET detail == Head(details)
           row == IF detail.Name \in DOMAIN policyMap
                    THEN policyMap[detail.Name]
                    ELSE [Name |-> detail.Name, Level |-> detail.Level, Results |-> <<>>]
           cell == [Status |-> detail.Status, Violations |-> detail.Violations,
                    Error |-> detail.Error, Overridden |-> detail.Overridden]
           newRow == [row EXCEPT !.Results = (environment :> cell) @@ @]
       IN AddDetails((detail.Name :> newRow) @@ policyMap, environment, Tail(details))

RECURSIVE BuildPolicyMap(_, _)
\* The outer loop of buildMultiEnvReport, main.go:508-526.
BuildPolicyMap(policyMap, eds) ==
  IF eds = <<>> THEN policyMap
  ELSE BuildPolicyMap(
         AddDetails(policyMap, Head(eds).environment, Head(eds).policyReport.Details),
         Tail(eds))

RECURSIVE BuildSummary(_, _)
\* The first loop of buildMultiEnvReport, main.go:490-503.
BuildSummary(summary, eds) ==
  IF eds = <<>> THEN summary
  ELSE BuildSummary((Head(eds).environment :> EnvSummary(Head(eds).policyReport)) @@ summary,
                    Tail(eds))

\* buildMultiEnvReport: the environments in the order of allEnvData, the
\* summary of each, and the rows of the policy matrix (a slice filled from a
\* map, so in no particular order).
buildMultiEnvReport(eds) ==
  LET policyMap == BuildPolicyMap(<<>>, eds)
  IN [Environments |-> [i \in 1..Len(eds) |-> eds[i].environment],
      Summary |-> BuildSummary(<<>>, eds),
      Policies |-> {policyMap[n] : n \in DOMAIN policyMap}]

\* run without its second loop: warnings never fail the run.
FinalDecision_BlockOnly(eds) ==
  IF \E i \in 1..Len(eds) : eds[i].enforcement.ShouldBlock
    THEN "blocking policy failures detected"
  ELSE "nil"

\* The last two loops of run, main.go:287-301: the error run returns once
\* the report is out, "nil" when every environment passed.
FinalDecision(eds) ==
  IF \E i \in 1..Len(eds) : eds[i].enforcement.ShouldBlock
    THEN "blocking policy failures detected"
  ELSE IF \E i \in 1..Len(eds) : eds[i].enforcement.ShouldWarn
    THEN "warning policy failures detected"
  ELSE "nil"

\* main letting a run that ends on warnings exit like a run that passed.
ExitStatus_WarningPasses(err) ==
  IF err = "nil" \/ err = "warning policy failures detected" THEN 0 ELSE 1

\* main, main.go:57-62: the exit status of the process, from the error run
\* returned through Execute: os.Exit(1) on any error, else the status of a
\* main that returned.
ExitStatus(err) ==
  IF err = "nil" THEN 0 ELSE 1

\* ------------------------------------------------------------------ state
\* ------------------------------------------------------- PolicyEvaluator
\* The levels of the PolicyEvaluator, part_013:389-396.
POLICY_LEVEL_OVERRIDE == "OVERRIDE"
POLICY_LEVEL_NOT_IN_EFFECT == "NOT_IN_EFFECT"
POLICY_LEVEL_UNKNOWN == ""

\* The longest override comment validateComplianceConfig accepts.
MaxOverrideCommentLen == 255

\* PolicyEvaluator.validateComplianceConfig: TRUE iff it returns nil.
validateComplianceConfig(config) ==
  /\ DOMAIN config # {}
  /\ \A id \in DOMAIN config :
       LET policy == config[id] IN
         /\ policy.Name # ""
         /\ policy.Type # ""
         /\ policy.Type = "opa"
         /\ policy.FilePath # ""
         /\ ~ ( /\ policy.Enforcement.InEffectAfter # NoTime
                /\ policy.Enforcement.IsWarningAfter # NoTime
                /\ policy.Enforcement.IsWarningAfter < policy.Enforcement.InEffectAfter )
         /\ ~ ( /\ policy.Enforcement.IsWarningAfter # NoTime
                /\ policy.Enforcement.IsBlockingAfter # NoTime
                /\ policy.Enforcement.IsBlockingAfter < policy.Enforcement.IsWarningAfter )
         /\ ~ ( /\ policy.Enforcement.Override.Comment # <<>>
                /\ Len(policy.Enforcement.Override.Comment) > MaxOverrideCommentLen )

\* The body of the policy loop of PolicyEvaluator.DetermineEnforcementLevel,
\* part_013:650-667: four tests in a row, each overwriting enforcementLevel.
enforcementLevel(enforcement, t) ==
  LET l0 == POLICY_LEVEL_UNKNOWN
      l1 == IF enforcement.InEffectAfter # NoTime /\ t < enforcement.InEffectAfter
              THEN POLICY_LEVEL_NOT_IN_EFFECT ELSE l0
      l2 == IF enforcement.IsWarningAfter # NoTime /\ t < enforcement.IsWarningAfter
              THEN POLICY_LEVEL_RECOMMEND ELSE l1
      l3 == IF enforcement.IsBlockingAfter # NoTime /\ t < enforcement.IsBlockingAfter
              THEN POLICY_LEVEL_WARNING ELSE l2
      l4 == IF enforcement.IsBlockingAfter # NoTime /\ ~(t < enforcement.IsBlockingAfter)
              THEN POLICY_LEVEL_BLOCK ELSE l3
  IN l4

\* PolicyEvaluator.DetermineEnforcementLevel, part_013:639-671: the value of
\* policyIdToLevel after the call. The comment loop marks the policy of every
\* comment that equals an override command; the policy loop then stores the
\* level of every policy of the configuration.
DetermineEnforcementLevel(policyIdToLevel, overrideCmdToPolicyId, config, cmts, t) ==
  LET marked == {overrideCmdToPolicyId[c] : c \in Range(cmts) \cap DOMAIN overrideCmdToPolicyId}
      afterComments == [id \in DOMAIN policyIdToLevel \cup marked |->
                          IF id \in marked THEN POLICY_LEVEL_OVERRIDE
                          ELSE policyIdToLevel[id]]
  IN [id \in DOMAIN afterComments \cup DOMAIN config |->
        IF id \in DOMAIN config THEN enforcementLevel(config[id].Enforcement, t)
        ELSE afterComments[id]]

\* The orders in which a range over a map with these keys can visit them.
Orders(keys) ==
  { o \in [1..Cardinality(keys) -> keys] : Range(o) = keys }

RECURSIVE LoadLoop(_, _, _, _)
\* The policy loop of PolicyEvaluator.LoadAndValidate, part_013:435-464, over
\* the policies in this order: a missing file or an override command another
\* policy registered already returns an error, else the command is
\* registered. Gives the error returned and overrideCmdToPolicyId.
LoadLoop(order, missing, config, overrideCmdToPolicyId) ==
  IF order = <<>>
    THEN [err |-> "nil", overrideCmdToPolicyId |-> overrideCmdToPolicyId]
  ELSE LET id == Head(order)
           cmd == config[id].Enforcement.Override.Comment
       IN IF id \in missing
            THEN [err |-> "file not found", overrideCmdToPolicyId |-> overrideCmdToPolicyId]
          ELSE IF cmd = <<>>
            THEN LoadLoop(Tail(order), missing, config, overrideCmdToPolicyId)
          ELSE IF cmd \in DOMAIN overrideCmdToPolicyId
            THEN [err |-> "this override command already exists",
                  overrideCmdToPolicyId |-> overrideCmdToPolicyId]
          ELSE LoadLoop(Tail(order), missing, config,
                        (cmd :> id) @@ overrideCmdToPolicyId)

\* The loop of PolicyEvaluator.Evaluate, part_013:553-562, over the policies
\* in the order of the map iteration; outs holds what the check backend
\* answers for each policy. The first error ends the loop and the call.
RECURSIVE EvaluateLoop(_, _, _)
EvaluateLoop(order, outs, evalFailMsgOfPolicy) ==
  IF order = <<>>
    THEN [err |-> "nil", evalFailMsgOfPolicy |-> evalFailMsgOfPolicy]
  ELSE LET id == Head(order)
       IN IF outs[id].err
            THEN [err |-> "failed to evaluate policy",
                  evalFailMsgOfPolicy |-> evalFailMsgOfPolicy]
          ELSE EvaluateLoop(Tail(order), outs,
                            (id :> outs[id].violations) @@ evalFailMsgOfPolicy)

VARIABLES
  pc,          \* position of run: "load", "fetch", "loop", "evaluate", "report", "decide", "done"
  now,         \* the wall clock read by time.Now()
  runMode,     \* opts.runMode
  cfg,         \* the ComplianceConfig file: policy ID -> PolicyConfig
  comments,    \* the comments fetched for the pull request
  envIdx,      \* index in opts.environments of the environment being processed
  hasErrors,   \* run's hasErrors
  allEnvData,  \* run's allEnvData: one envData per processed environment
  evalResult,  \* the EvaluationResult Evaluate is filling for the current environment
  pending,     \* the policies Evaluate has not reached yet in its loop over the map
  backend,     \* history: environment -> policy ID -> what the check backend answers
  report,      \* the MultiEnvCommentData handed to the renderer, or NoReport
  published,   \* the rendered report was written to the output file or the PR
  runErr,      \* the error run returned, "nil" for none, "running" before it returns
  schedule,    \* the EnforcementConfig handed to determineEnforcementLevel on its own
  level,       \* the level it returned, "" before the call
  resolvedAt,  \* the instant time.Now() gave in that call, NoTime before the call
  data,        \* the EvaluatorData of a PolicyEvaluator used on its own
  peErr,       \* what the last method called on that PolicyEvaluator returned, "" before any call
  loadErr,     \* what Evaluator.LoadAndValidate returned when called on its own, "" before the call
  levelsAt,    \* the instant time.Now() gave in the last DetermineEnforcementLevel, NoTime before
  evalErr,     \* what Evaluate returned when called on that PolicyEvaluator, "" before the call
  cancelled,   \* the context handed to run is done: its caller cancelled it or its deadline passed
  prComments,  \* the comments of a pull request, as GitHub lists them
  found,       \* what FindToolComment of the client of main.go returned, NotCalled before the call
  clientFound, \* what FindToolComment of client.go returned, NotCalled before the call
  postErr,     \* what posting the report to the pull request returned, "" before the call
  diffPc,      \* position of each goroutine calling Diff on the shared Differ
  diffIn,      \* the before and after manifests each of them passes
  diffFiles,   \* the names of the temporary files each call holds, NoFile for none
  fs,          \* the temporary directory: file name -> content
  diffOut,     \* what each call returned: the diff and the error
  fetchPc,     \* position of fetchAndSetPullRequestInfo, "idle" when it is not called
  fetchers,    \* its two goroutines: position and the result each has to send
  chans,       \* prChan and commentsChan: the results buffered in each
  fetchRet     \* r.prInfo, r.comments and the error the function returned

vars == <<pc, now, runMode, cfg, comments, envIdx, hasErrors, allEnvData,
          evalResult, pending, backend, report, published, runErr, schedule, level, resolvedAt,
          data, peErr, loadErr, levelsAt, evalErr, cancelled,
          prComments, found, clientFound, postErr,
          diffPc, diffIn, diffFiles, fs, diffOut,
          fetchPc, fetchers, chans, fetchRet>>

\* The variables of the level resolution called on its own.
levelVars == <<schedule, level, resolvedAt>>

\* The variables of the evaluators' methods called on their own.
evaluatorVars == <<data, peErr, loadErr, levelsAt, evalErr>>

\* The variables of the GitHub client's comment handling called on its own.
commentVars == <<prComments, found, clientFound, postErr>>

\* The variables of the calls of Diff on a shared Differ.
differVars == <<diffPc, diffIn, diffFiles, fs, diffOut>>

\* The variables of fetchAndSetPullRequestInfo called on its own.
fetchVars == <<fetchPc, fetchers, chans, fetchRet>>

\* The variables of the parts of the program called on their own, the
\* evaluators apart.
harnessVars == <<commentVars, differVars, fetchVars>>

\* No goroutine calls Diff.
DifferIdle ==
  /\ diffPc = <<>>
  /\ diffIn = <<>>
  /\ diffFiles = <<>>
  /\ fs = <<>>
  /\ diffOut = <<>>

\* fetchAndSetPullRequestInfo is not called.
FetchIdle ==
  /\ fetchPc = "idle"
  /\ fetchers = <<>>
  /\ chans = <<>>
  /\ fetchRet = [prInfo |-> "", comments |-> <<>>, err |-> ""]

\* FindToolComment has not been called.
NotCalled == [called |-> FALSE, comment |-> 0, err |-> FALSE]

\* No such part has been called.
HarnessIdle ==
  /\ prComments = <<>>
  /\ found = NotCalled
  /\ clientFound = NotCalled
  /\ postErr = ""
  /\ DifferIdle
  /\ FetchIdle

\* The EvaluatorData of a new PolicyEvaluator: every map is empty.
NoData == [overrideCmdToPolicyId |-> <<>>, policyIdToLevel |-> <<>>,
           evalFailMsgOfPolicy |-> <<>>]

\* The variables of the run, the clock apart.
runVars == <<pc, runMode, cfg, comments, envIdx, hasErrors, allEnvData,
             evalResult, pending, backend, report, published, runErr, cancelled>>

NoReport == [Environments |-> <<>>, Summary |-> <<>>, Policies |-> {}]

NoEvaluation == [TotalPolicies |-> 0, PassedPolicies |-> 0, FailedPolicies |-> 0,
                 ErroredPolicies |-> 0, PolicyResults |-> <<>>]

Init ==
  /\ pc = "load"
  /\ now = 1
  /\ runMode \in {"github", "local"}
  /\ cfg \in [PolicyIDs -> UNION {PolicyConfigs(id) : id \in PolicyIDs}]
  /\ \A id \in PolicyIDs : cfg[id] \in PolicyConfigs(id)
  /\ comments = <<>>
  /\ envIdx = 1
  /\ hasErrors = FALSE
  /\ allEnvData = <<>>
  /\ evalResult = NoEvaluation
  /\ pending = {}
  /\ backend = <<>>
  /\ report = NoReport
  /\ published = FALSE
  /\ runErr = "running"
  /\ schedule = [InEffectAfter |-> NoTime, IsWarningAfter |-> NoTime, IsBlockingAfter |-> NoTime]
  /\ level = ""
  /\ resolvedAt = NoTime
  /\ data = NoData
  /\ peErr = ""
  /\ loadErr = ""
  /\ levelsAt = NoTime
  /\ evalErr = ""
  /\ cancelled = FALSE
  /\ HarnessIdle

\* run returns err: the program is over.
Return(err) ==
  /\ pc' = "done"
  /\ runErr' = err

\* The wall clock advances. time.Now() is read by determineEnforcementLevel
\* only, so the clock is followed from the environment loop on.
Tick ==
  /\ pc \in {"loop", "evaluate", "resolve"}
  /\ now < MaxTime
  /\ now' = now + 1
  /\ UNCHANGED levelVars
  /\ UNCHANGED harnessVars
  /\ UNCHANGED evaluatorVars
  /\ UNCHANGED cancelled
  /\ UNCHANGED <<pc, runMode, cfg, comments, envIdx, hasErrors, allEnvData,
                 evalResult, pending, backend, report, published, runErr>>

\* run, main.go:120-126: LoadAndValidate; filesExist tells whether every
\* policy file and its test file are found.
LoadAndValidate ==
  /\ pc = "load"
  /\ \E filesExist \in BOOLEAN :
       IF ValidateComplianceConfig(cfg) /\ filesExist
         THEN pc' = "fetch" /\ UNCHANGED runErr
         ELSE Return("failed to load policy config")
  /\ UNCHANGED levelVars
  /\ UNCHANGED harnessVars
  /\ UNCHANGED evaluatorVars
  /\ UNCHANGED cancelled
  /\ UNCHANGED <<now, runMode, cfg, comments, envIdx, hasErrors, allEnvData,
                 evalResult, pending, backend, report, published>>

\* run going on without comments when GetComments fails.
FetchPullRequest_ContinueWithoutComments ==
  /\ pc = "fetch"
  /\ IF runMode = "github"
       THEN \/ Return("GitHub authentication failed") /\ UNCHANGED comments
            \/ Return("failed to get PR info") /\ UNCHANGED comments
            \/ /\ runErr' = "failed to get PR comments"
               /\ comments' = <<>>
               /\ pc' = "loop"
            \/ /\ ~cancelled
               /\ \E cs \in CommentLists :
                    comments' = cs /\ pc' = "loop" /\ UNCHANGED runErr
       ELSE comments' = <<>> /\ pc' = "loop" /\ UNCHANGED runErr
  /\ UNCHANGED levelVars
  /\ UNCHANGED harnessVars
  /\ UNCHANGED evaluatorVars
  /\ UNCHANGED cancelled
  /\ UNCHANGED <<now, runMode, cfg, envIdx, hasErrors, allEnvData,
                 evalResult, pending, backend, report, published>>

\* run, main.go:134-157: in github mode authenticate, get the PR and its
\* comments, each of which can fail; in local mode there are no comments.
\* The requests carry ctx (client.go:72, 139): none succeeds once it is done.
FetchPullRequest ==
  /\ pc = "fetch"
  /\ IF runMode = "github"
       THEN \/ Return("GitHub authentication failed") /\ UNCHANGED comments
            \/ Return("failed to get PR info") /\ UNCHANGED comments
            \/ Return("failed to get PR comments") /\ UNCHANGED comments
            \/ /\ ~cancelled
               /\ \E cs \in CommentLists :
                    comments' = cs /\ pc' = "loop" /\ UNCHANGED runErr
       ELSE comments' = <<>> /\ pc' = "loop" /\ UNCHANGED runErr
  /\ UNCHANGED levelVars
  /\ UNCHANGED harnessVars
  /\ UNCHANGED evaluatorVars
  /\ UNCHANGED cancelled
  /\ UNCHANGED <<now, runMode, cfg, envIdx, hasErrors, allEnvData,
                 evalResult, pending, backend, report, published>>

\* processEnvironment up to the loop of Evaluate, main.go:304-370 and
\* evaluator.go:93-122: build both manifests, diff them, write the manifest
\* to a temporary file. Any of these can fail, and then run records the
\* error and goes on with the next environment (main.go:166-170). The builds
\* are commands bound to ctx (builder.go:75): they fail once it is done.
BeginEnvironment ==
  /\ pc = "loop"
  /\ envIdx <= Len(Environments)
  /\ \/ /\ hasErrors' = TRUE
        /\ envIdx' = envIdx + 1
        /\ UNCHANGED <<pc, evalResult, pending>>
     \/ /\ ~cancelled
        /\ evalResult' = NewEvaluationResult(cfg)
        /\ pending' = DOMAIN cfg
        /\ pc' = "evaluate"
        /\ UNCHANGED <<hasErrors, envIdx>>
  /\ UNCHANGED levelVars
  /\ UNCHANGED harnessVars
  /\ UNCHANGED evaluatorVars
  /\ UNCHANGED cancelled
  /\ UNCHANGED <<now, runMode, cfg, comments, allEnvData, backend, report, published, runErr>>

\* One iteration of the loop of Evaluate, evaluator.go:125-137. Go ranges
\* over the map of policies in no particular order, and goes on whatever
\* the state of ctx.
EvaluatePolicy ==
  /\ pc = "evaluate"
  /\ \E id \in pending, out \in BackendOutcomesUnder(cancelled) :
       LET env == Environments[envIdx]
           policyResult == evaluatePolicyWithConftest(id, cfg[id], now, out)
           seen == IF env \in DOMAIN backend THEN backend[env] ELSE <<>>
       IN /\ evalResult' = EvaluateStep(evalResult, policyResult)
          /\ pending' = EvaluateLoopRest(pending, id, policyResult)
          /\ backend' = [e \in DOMAIN backend \cup {env} |->
                           IF e = env THEN (id :> out) @@ seen ELSE backend[e]]
  /\ UNCHANGED levelVars
  /\ UNCHANGED harnessVars
  /\ UNCHANGED evaluatorVars
  /\ UNCHANGED cancelled
  /\ UNCHANGED <<pc, now, runMode, cfg, comments, envIdx, hasErrors, allEnvData,
                 report, published, runErr>>

\* The rest of processEnvironment, main.go:372-392, and the append of run,
\* main.go:172: overrides, enforcement and the policy report.
FinishEnvironment ==
  /\ pc = "evaluate"
  /\ pending = {}
  /\ LET overrides == CheckOverrides(comments, cfg)
         applied == ApplyOverrides(evalResult, overrides)
     IN allEnvData' = Append(allEnvData,
          [environment |-> Environments[envIdx],
           evalResult |-> applied,
           policyReport |-> GenerateReport(applied),
           enforcement |-> Enforce(applied, overrides)])
  /\ evalResult' = NoEvaluation
  /\ envIdx' = envIdx + 1
  /\ pc' = "loop"
  /\ UNCHANGED levelVars
  /\ UNCHANGED harnessVars
  /\ UNCHANGED evaluatorVars
  /\ UNCHANGED cancelled
  /\ UNCHANGED <<now, runMode, cfg, comments, hasErrors, pending, backend, report, published, runErr>>

\* run, main.go:176-213: after the loop, give up if every environment failed,
\* else build the combined report and render it; rendering can fail.
GenerateCombinedReport ==
  /\ pc = "loop"
  /\ envIdx > Len(Environments)
  /\ IF hasErrors /\ Len(allEnvData) = 0
       THEN Return("all environments failed") /\ UNCHANGED report
       ELSE /\ report' = buildMultiEnvReport(allEnvData)
            /\ \/ Return("failed to render comment")
               \/ pc' = "output" /\ UNCHANGED runErr
  /\ UNCHANGED levelVars
  /\ UNCHANGED harnessVars
  /\ UNCHANGED evaluatorVars
  /\ UNCHANGED cancelled
  /\ UNCHANGED <<now, runMode, cfg, comments, envIdx, hasErrors, allEnvData,
                 evalResult, pending, backend, published>>

\* The slices a loop over the values of a map of environment results can
\* fill: the results in any order.
MapValues(eds) ==
  { [i \in 1..Len(eds) |-> eds[o[i]]] : o \in Orders(1..Len(eds)) }

\* run of run.go, run.go:110-121, with GenerateReport of the runners,
\* part_019:187-205 and part_015:110-127: the results of the environments are
\* kept in a map keyed by environment; GenerateReport copies the values of the
\* map into a slice, builds the combined report from the slice and renders it.
RunnerGenerateReport ==
  /\ pc = "loop"
  /\ envIdx > Len(Environments)
  /\ IF hasErrors /\ Len(allEnvData) = 0
       THEN Return("all environments failed") /\ UNCHANGED report
       ELSE /\ \E envArr \in MapValues(allEnvData) :
                 report' = buildMultiEnvReport(envArr)
            /\ \/ Return("failed to generate report")
               \/ pc' = "output" /\ UNCHANGED runErr
  /\ UNCHANGED levelVars
  /\ UNCHANGED harnessVars
  /\ UNCHANGED evaluatorVars
  /\ UNCHANGED cancelled
  /\ UNCHANGED <<now, runMode, cfg, comments, envIdx, hasErrors, allEnvData,
                 evalResult, pending, backend, published>>

\* run, main.go:215-301: write the report to the output file or post it to
\* the pull request, which can fail; then return the decision. Posting
\* carries ctx (main.go:272, 279) and fails once it is done; writing the
\* file (main.go:220-227) does not look at ctx.
OutputResults ==
  /\ pc = "output"
  /\ \/ Return("failed to output report") /\ UNCHANGED published
     \/ /\ runMode = "local" \/ ~cancelled
        /\ published' = TRUE
        /\ Return(FinalDecision(allEnvData))
  /\ UNCHANGED levelVars
  /\ UNCHANGED harnessVars
  /\ UNCHANGED evaluatorVars
  /\ UNCHANGED cancelled
  /\ UNCHANGED <<now, runMode, cfg, comments, envIdx, hasErrors, allEnvData,
                 evalResult, pending, backend, report>>

\* The caller of run cancels ctx, or its deadline passes, while run is going.
Cancel ==
  /\ pc \in {"load", "fetch", "loop", "evaluate", "output"}
  /\ ~cancelled
  /\ cancelled' = TRUE
  /\ UNCHANGED levelVars
  /\ UNCHANGED harnessVars
  /\ UNCHANGED evaluatorVars
  /\ UNCHANGED <<pc, now, runMode, cfg, comments, envIdx, hasErrors, allEnvData,
                 evalResult, pending, backend, report, published, runErr>>

\* ------------------------------------------ the comments of the pull request
\* The marker of the comments the tool writes, main.go:34, as a character
\* sequence.
COMMENT_MARKER == <<"m">>

\* The report of this run as posted: the marker, then the rendered report.
finalComment == COMMENT_MARKER \o <<"n">>

\* The bodies of the comments found on a pull request: a comment of somebody
\* else, or the report an earlier run posted.
CommentBodies == { <<"x">>, COMMENT_MARKER \o <<"o">> }

\* The nil *Comment, as a comment ID.
NoComment == 0

\* The comments GetComments lists for a pull request: GitHub lists them
\* oldest first, and its IDs grow with time.
PullRequestComments ==
  UNION { { [i \in 1..n |-> [ID |-> i, Body |-> b[i]]] : b \in [1..n -> CommentBodies] }
          : n \in 0..MaxComments }

\* The comments carrying the marker.
ToolComments(cs) == { i \in 1..Len(cs) : Contains(cs[i].Body, COMMENT_MARKER) }

\* FindToolComment of the client run of main.go calls (differ_test.go:588-607,
\* the same loop in part_011:131-150): the ID of the marked comment with the
\* highest ID, NoComment when there is none.
FindToolComment(cs) ==
  IF ToolComments(cs) = {} THEN NoComment
  ELSE LET i == CHOOSE i \in ToolComments(cs) :
                  \A j \in ToolComments(cs) : cs[j].ID <= cs[i].ID
       IN cs[i].ID

\* FindToolComment of client.go:160-178: the loop breaks at the first marked
\* comment of the list.
FindFirstToolComment(cs) ==
  IF ToolComments(cs) = {} THEN NoComment
  ELSE LET i == CHOOSE i \in ToolComments(cs) : \A j \in ToolComments(cs) : i <= j
       IN cs[i].ID

\* UpdateComment: the comment with the given ID gets the new body.
UpdateComment(cs, id, body) ==
  [i \in 1..Len(cs) |-> IF cs[i].ID = id THEN [cs[i] EXCEPT !.Body = body] ELSE cs[i]]

\* CreateComment: GitHub appends a comment with a new, higher ID.
CreateComment(cs, body) == Append(cs, [ID |-> Len(cs) + 1, Body |-> body])

\* A pull request with any comments, and a client for it.
InitComment ==
  /\ pc = "post"
  /\ now = 1
  /\ runMode = "github"
  /\ cfg = [id \in PolicyIDs |-> CHOOSE c \in PolicyConfigs(id) : TRUE]
  /\ comments = <<>>
  /\ envIdx = 1
  /\ hasErrors = FALSE
  /\ allEnvData = <<>>
  /\ evalResult = NoEvaluation
  /\ pending = {}
  /\ backend = <<>>
  /\ report = NoReport
  /\ published = FALSE
  /\ runErr = "running"
  /\ schedule = [InEffectAfter |-> NoTime, IsWarningAfter |-> NoTime, IsBlockingAfter |-> NoTime]
  /\ level = ""
  /\ resolvedAt = NoTime
  /\ data = NoData
  /\ peErr = ""
  /\ loadErr = ""
  /\ levelsAt = NoTime
  /\ evalErr = ""
  /\ cancelled = FALSE
  /\ prComments \in PullRequestComments
  /\ found = NotCalled
  /\ clientFound = NotCalled
  /\ postErr = ""
  /\ DifferIdle
  /\ FetchIdle

\* A call of FindToolComment, differ_test.go:588-607: GetComments can fail,
\* and then the call returns nil and the error.
CallFindToolComment ==
  /\ pc = "post"
  /\ ~found.called
  /\ postErr = ""
  /\ \E listed \in BOOLEAN :
       found' = IF listed
                  THEN [called |-> TRUE, comment |-> FindToolComment(prComments), err |-> FALSE]
                ELSE [called |-> TRUE, comment |-> NoComment, err |-> TRUE]
  /\ UNCHANGED <<prComments, clientFound, postErr>>
  /\ UNCHANGED <<now, cancelled>>
  /\ UNCHANGED differVars
  /\ UNCHANGED fetchVars
  /\ UNCHANGED <<pc, runMode, cfg, comments, envIdx, hasErrors, allEnvData,
                 evalResult, pending, backend, report, published, runErr>>
  /\ UNCHANGED levelVars
  /\ UNCHANGED evaluatorVars

\* A call of FindToolComment of client.go:160-178.
CallFindFirstToolComment ==
  /\ pc = "post"
  /\ ~clientFound.called
  /\ postErr = ""
  /\ \E listed \in BOOLEAN :
       clientFound' = IF listed
                        THEN [called |-> TRUE, comment |-> FindFirstToolComment(prComments),
                              err |-> FALSE]
                      ELSE [called |-> TRUE, comment |-> NoComment, err |-> TRUE]
  /\ UNCHANGED <<prComments, found, postErr>>
  /\ UNCHANGED <<now, cancelled>>
  /\ UNCHANGED differVars
  /\ UNCHANGED fetchVars
  /\ UNCHANGED <<pc, runMode, cfg, comments, envIdx, hasErrors, allEnvData,
                 evalResult, pending, backend, report, published, runErr>>
  /\ UNCHANGED levelVars
  /\ UNCHANGED evaluatorVars

\* run posting the report, main.go:230-284: create the client, list the
\* comments to count the marked ones (a failure is only printed), search the
\* comment of the tool (a failure is only printed, and leaves no comment
\* found), then update the comment found or create a new one.
PostComment ==
  /\ pc = "post"
  /\ postErr = ""
  /\ \E authenticated, searched, written \in BOOLEAN :
       LET existingComment == IF searched THEN FindToolComment(prComments) ELSE NoComment
       IN IF ~authenticated
            THEN postErr' = "failed to create GitHub client" /\ UNCHANGED prComments
          ELSE IF existingComment # NoComment
            THEN IF written
                   THEN /\ prComments' = UpdateComment(prComments, existingComment, finalComment)
                        /\ postErr' = "nil"
                 ELSE postErr' = "failed to update comment" /\ UNCHANGED prComments
          ELSE IF written
            THEN /\ prComments' = CreateComment(prComments, finalComment)
                 /\ postErr' = "nil"
          ELSE postErr' = "failed to create comment" /\ UNCHANGED prComments
  /\ UNCHANGED <<found, clientFound>>
  /\ UNCHANGED <<now, cancelled>>
  /\ UNCHANGED differVars
  /\ UNCHANGED fetchVars
  /\ UNCHANGED <<pc, runMode, cfg, comments, envIdx, hasErrors, allEnvData,
                 evalResult, pending, backend, report, published, runErr>>
  /\ UNCHANGED levelVars
  /\ UNCHANGED evaluatorVars

NextComment ==
  \/ CallFindToolComment
  \/ CallFindFirstToolComment
  \/ PostComment

SpecComment == InitComment /\ [][NextComment]_vars

\* ------------------------------------------------------------ the Differ
\* The goroutines sharing one Differ, TestDiffer_ConcurrentAccess.
DiffCalls == 1..MaxCalls

\* The manifests they pass, differ_test.go:407-408: each goroutine its own
\* content and its own modified content; same holds the goroutines that pass
\* the modified content on both sides.
ManifestPairs ==
  { [g \in DiffCalls |->
       [before |-> IF g \in same THEN <<"modified", g>> ELSE <<"test", g>>,
        after |-> <<"modified", g>>]]
    : same \in SUBSET DiffCalls }

\* The names os.CreateTemp can give in the temporary directory.
TempNames == 1..(2 * MaxCalls)

\* No file.
NoFile == 0

\* os.CreateTemp with one name for every call.
CreateTemp_FixedName(files) == {1}

\* os.CreateTemp, part_009:47 and 56: a new file under a name no file of the
\* directory has.
CreateTemp(files) == TempNames \ DOMAIN files

\* What diff -u prints for two contents, the file names replaced by "before"
\* and "after" (part_009:83-96): nothing when they are equal.
DiffOutput(before, after) ==
  IF before = after THEN <<>> ELSE <<"-", before, "+", after>>

\* One shared Differ and MaxCalls goroutines about to call Diff on it, with
\* any manifests.
InitDiffer ==
  /\ pc = "diff"
  /\ now = 1
  /\ runMode = "local"
  /\ cfg = [id \in PolicyIDs |-> CHOOSE c \in PolicyConfigs(id) : TRUE]
  /\ comments = <<>>
  /\ envIdx = 1
  /\ hasErrors = FALSE
  /\ allEnvData = <<>>
  /\ evalResult = NoEvaluation
  /\ pending = {}
  /\ backend = <<>>
  /\ report = NoReport
  /\ published = FALSE
  /\ runErr = "running"
  /\ schedule = [InEffectAfter |-> NoTime, IsWarningAfter |-> NoTime, IsBlockingAfter |-> NoTime]
  /\ level = ""
  /\ resolvedAt = NoTime
  /\ data = NoData
  /\ peErr = ""
  /\ loadErr = ""
  /\ levelsAt = NoTime
  /\ evalErr = ""
  /\ cancelled = FALSE
  /\ prComments = <<>>
  /\ found = NotCalled
  /\ clientFound = NotCalled
  /\ postErr = ""
  /\ diffPc = [g \in DiffCalls |-> "call"]
  /\ diffIn \in ManifestPairs
  /\ diffFiles = [g \in DiffCalls |-> [beforeFile |-> NoFile, afterFile |-> NoFile]]
  /\ fs = <<>>
  /\ diffOut = [g \in DiffCalls |-> [diff |-> <<>>, err |-> ""]]
  /\ FetchIdle

\* What the steps of a call of Diff leave alone.
DifferFrame ==
  /\ UNCHANGED <<now, cancelled, diffIn>>
  /\ UNCHANGED commentVars
  /\ UNCHANGED fetchVars
  /\ UNCHANGED <<pc, runMode, cfg, comments, envIdx, hasErrors, allEnvData,
                 evalResult, pending, backend, report, published, runErr>>
  /\ UNCHANGED <<schedule, level, resolvedAt>>
  /\ UNCHANGED evaluatorVars

\* unifiedDiff, part_009:42-60: equal manifests return at once; else the two
\* temporary files are created, one after the other.
DiffCreateTemp(g) ==
  /\ pc = "diff"
  /\ diffPc[g] = "call"
  /\ IF diffIn[g].before = diffIn[g].after
       THEN /\ diffPc' = [diffPc EXCEPT ![g] = "returned"]
            /\ diffOut' = [diffOut EXCEPT ![g] = [diff |-> <<>>, err |-> "nil"]]
            /\ UNCHANGED <<diffFiles, fs>>
       ELSE \E beforeFile \in CreateTemp(fs) :
              LET created == (beforeFile :> "") @@ fs
              IN \E afterFile \in CreateTemp(created) :
                   /\ fs' = (afterFile :> "") @@ created
                   /\ diffFiles' = [diffFiles EXCEPT
                                      ![g] = [beforeFile |-> beforeFile, afterFile |-> afterFile]]
                   /\ diffPc' = [diffPc EXCEPT ![g] = "created"]
                   /\ UNCHANGED diffOut
  /\ DifferFrame

\* unifiedDiff, part_009:63-75: write the manifests to the files and close
\* them.
DiffWrite(g) ==
  /\ pc = "diff"
  /\ diffPc[g] = "created"
  /\ fs' = [n \in DOMAIN fs |->
              IF n = diffFiles[g].afterFile THEN diffIn[g].after
              ELSE IF n = diffFiles[g].beforeFile THEN diffIn[g].before
              ELSE fs[n]]
  /\ diffPc' = [diffPc EXCEPT ![g] = "written"]
  /\ UNCHANGED <<diffFiles, diffOut>>
  /\ DifferFrame

\* unifiedDiff, part_009:78-96: run diff -u on the two files. It exits with 1
\* when they differ, which is no error, and with 2 when a file is missing.
DiffRun(g) ==
  /\ pc = "diff"
  /\ diffPc[g] = "written"
  /\ diffOut' = [diffOut EXCEPT ![g] =
       IF diffFiles[g].beforeFile \in DOMAIN fs /\ diffFiles[g].afterFile \in DOMAIN fs
         THEN [diff |-> DiffOutput(fs[diffFiles[g].beforeFile], fs[diffFiles[g].afterFile]),
               err |-> "nil"]
       ELSE [diff |-> <<>>, err |-> "diff command failed"]]
  /\ diffPc' = [diffPc EXCEPT ![g] = "ran"]
  /\ UNCHANGED <<diffFiles, fs>>
  /\ DifferFrame

\* The deferred functions of unifiedDiff, part_009:51-54 and 60-63: remove
\* the two files; the call returns.
DiffReturn(g) ==
  /\ pc = "diff"
  /\ diffPc[g] = "ran"
  /\ fs' = [n \in DOMAIN fs \ {diffFiles[g].beforeFile, diffFiles[g].afterFile} |-> fs[n]]
  /\ diffPc' = [diffPc EXCEPT ![g] = "returned"]
  /\ UNCHANGED <<diffFiles, diffOut>>
  /\ DifferFrame

NextDiffer ==
  \/ \E g \in DiffCalls : DiffCreateTemp(g)
  \/ \E g \in DiffCalls : DiffWrite(g)
  \/ \E g \in DiffCalls : DiffRun(g)
  \/ \E g \in DiffCalls : DiffReturn(g)

SpecDiffer == InitDiffer /\ [][NextDiffer]_vars

\* ------------------------------------- fetching the pull request's data

\* The two goroutines fetchAndSetPullRequestInfo starts.
Fetchers == {"pr", "comments"}

\* make(chan prResult, 1), make(chan commentsResult, 1): the capacity of
\* each channel.
ChanCap == 1

\* The same channels made without a buffer: a send goes through only while
\* the function is receiving from the channel.
ChannelHasRoom_Unbuffered(ch, receiving) == receiving

\* A send on a channel goes through when its buffer has room.
ChannelHasRoom(ch, receiving) == Len(ch) < ChanCap

\* What GetPR and GetComments may return: the value, or an error.
FetchResults(g) ==
  IF g = "pr"
    THEN {[val |-> "pr", err |-> FALSE], [val |-> "", err |-> TRUE]}
    ELSE {[val |-> cs, err |-> FALSE] : cs \in PullRequestComments}
           \cup {[val |-> <<>>, err |-> TRUE]}

\* The function is in the select that receives from the channel of g.
Receiving(g) ==
  \/ g = "pr" /\ fetchPc = "selectPR"
  \/ g = "comments" /\ fetchPc = "selectComments"

\* A GitHub runner about to fetch the data of its pull request.
InitFetch ==
  /\ pc = "fetchInfo"
  /\ now = 1
  /\ runMode = "github"
  /\ cfg = [id \in PolicyIDs |-> CHOOSE c \in PolicyConfigs(id) : TRUE]
  /\ comments = <<>>
  /\ envIdx = 1
  /\ hasErrors = FALSE
  /\ allEnvData = <<>>
  /\ evalResult = NoEvaluation
  /\ pending = {}
  /\ backend = <<>>
  /\ report = NoReport
  /\ published = FALSE
  /\ runErr = "running"
  /\ schedule = [InEffectAfter |-> NoTime, IsWarningAfter |-> NoTime, IsBlockingAfter |-> NoTime]
  /\ level = ""
  /\ resolvedAt = NoTime
  /\ data = NoData
  /\ peErr = ""
  /\ loadErr = ""
  /\ levelsAt = NoTime
  /\ evalErr = ""
  /\ cancelled = FALSE
  /\ prComments = <<>>
  /\ found = NotCalled
  /\ clientFound = NotCalled
  /\ postErr = ""
  /\ DifferIdle
  /\ fetchPc = "start"
  /\ fetchers = [g \in Fetchers |-> [pc |-> "idle", res |-> [val |-> "", err |-> FALSE]]]
  /\ chans = [g \in Fetchers |-> <<>>]
  /\ fetchRet = [prInfo |-> "", comments |-> <<>>, err |-> ""]

\* What the steps of fetchAndSetPullRequestInfo leave alone.
FetchFrame ==
  /\ UNCHANGED now
  /\ UNCHANGED commentVars
  /\ UNCHANGED differVars
  /\ UNCHANGED <<pc, runMode, cfg, comments, envIdx, hasErrors, allEnvData,
                 evalResult, pending, backend, report, published, runErr>>
  /\ UNCHANGED <<schedule, level, resolvedAt>>
  /\ UNCHANGED evaluatorVars

\* fetchAndSetPullRequestInfo, github.go:159-192: parse the repository, make
\* the two channels and start the two goroutines.
FetchStart ==
  /\ pc = "fetchInfo"
  /\ fetchPc = "start"
  /\ \E parsed \in BOOLEAN :
       IF parsed
         THEN /\ fetchers' = [g \in Fetchers |-> [fetchers[g] EXCEPT !.pc = "call"]]
              /\ fetchPc' = "selectPR"
              /\ UNCHANGED fetchRet
         ELSE /\ fetchPc' = "returned"
              /\ fetchRet' = [fetchRet EXCEPT !.err = "failed to parse repository"]
              /\ UNCHANGED fetchers
  /\ UNCHANGED <<chans, cancelled>>
  /\ FetchFrame

\* A goroutine, github.go:180 and 186: the call of GetPR or of GetComments
\* returns.
FetcherCall(g) ==
  /\ pc = "fetchInfo"
  /\ fetchers[g].pc = "call"
  /\ \E res \in FetchResults(g) :
       fetchers' = [fetchers EXCEPT ![g] = [pc |-> "send", res |-> res]]
  /\ UNCHANGED <<fetchPc, chans, fetchRet, cancelled>>
  /\ FetchFrame

\* A goroutine, github.go:181 and 187: send the result on its channel; the
\* goroutine ends.
FetcherSend(g) ==
  /\ pc = "fetchInfo"
  /\ fetchers[g].pc = "send"
  /\ ChannelHasRoom(chans[g], Receiving(g))
  /\ chans' = [chans EXCEPT ![g] = Append(@, fetchers[g].res)]
  /\ fetchers' = [fetchers EXCEPT ![g].pc = "done"]
  /\ UNCHANGED <<fetchPc, fetchRet, cancelled>>
  /\ FetchFrame

\* The first select, github.go:191-199: receive the pull request, or see the
\* context done; either case may be taken when both are ready.
SelectPR ==
  /\ pc = "fetchInfo"
  /\ fetchPc = "selectPR"
  /\ \/ /\ chans["pr"] # <<>>
        /\ chans' = [chans EXCEPT !["pr"] = Tail(@)]
        /\ IF Head(chans["pr"]).err
             THEN /\ fetchPc' = "returned"
                  /\ fetchRet' = [fetchRet EXCEPT !.err = "failed to get PR info"]
             ELSE /\ fetchPc' = "selectComments"
                  /\ fetchRet' = [fetchRet EXCEPT !.prInfo = Head(chans["pr"]).val]
     \/ /\ cancelled
        /\ fetchPc' = "returned"
        /\ fetchRet' = [fetchRet EXCEPT !.err = "PR fetch cancelled"]
        /\ UNCHANGED chans
  /\ UNCHANGED <<fetchers, cancelled>>
  /\ FetchFrame

\* The second select, github.go:201-209: receive the comments, or see the
\* context done; then return nil.
SelectComments ==
  /\ pc = "fetchInfo"
  /\ fetchPc = "selectComments"
  /\ \/ /\ chans["comments"] # <<>>
        /\ chans' = [chans EXCEPT !["comments"] = Tail(@)]
        /\ fetchPc' = "returned"
        /\ IF Head(chans["comments"]).err
             THEN fetchRet' = [fetchRet EXCEPT !.err = "failed to get PR comments"]
             ELSE fetchRet' = [fetchRet EXCEPT !.comments = Head(chans["comments"]).val,
                                               !.err = "nil"]
     \/ /\ cancelled
        /\ fetchPc' = "returned"
        /\ fetchRet' = [fetchRet EXCEPT !.err = "comments fetch cancelled"]
        /\ UNCHANGED chans
  /\ UNCHANGED <<fetchers, cancelled>>
  /\ FetchFrame

\* The context of the runner is cancelled, part_007:108-110.
FetchCancel ==
  /\ pc = "fetchInfo"
  /\ ~cancelled
  /\ cancelled' = TRUE
  /\ UNCHANGED fetchVars
  /\ FetchFrame

NextFetch ==
  \/ FetchStart
  \/ \E g \in Fetchers : FetcherCall(g)
  \/ \E g \in Fetchers : FetcherSend(g)
  \/ SelectPR
  \/ SelectComments
  \/ FetchCancel

\* The Go scheduler runs a goroutine whose send can go through.
SpecFetch ==
  InitFetch /\ [][NextFetch]_vars /\ \A g \in Fetchers : WF_vars(FetcherSend(g))

\* ------------------------------------------- the evaluators on their own
\* The configurations handed to the evaluators on their own: p1 carries the
\* schedule s, p2 warns from the first instant and blocks from the last, and
\* each may declare the override command.
LevelConfigs(s) ==
  { [id \in PolicyIDs |->
       [Name |-> PolicyNames[id], Type |-> "opa", FilePath |-> "f.rego",
        Enforcement |->
          IF id = "p1"
            THEN [InEffectAfter |-> s.InEffectAfter,
                  IsWarningAfter |-> s.IsWarningAfter,
                  IsBlockingAfter |-> s.IsBlockingAfter,
                  Override |-> [Comment |-> c[id]]]
            ELSE [InEffectAfter |-> 1, IsWarningAfter |-> 1,
                  IsBlockingAfter |-> MaxTime,
                  Override |-> [Comment |-> c[id]]]]]
    : c \in [PolicyIDs -> OverrideComments] }

\* The comments handed to them: none, the override command alone, the
\* override command inside a longer text.
LevelCommentLists ==
  { <<>>,
    << [ID |-> 1, Body |-> <<"/", "a">>] >>,
    << [ID |-> 1, Body |-> <<"x", "/", "a">>] >> }

\* A caller holding any EnforcementConfig, at any instant.
InitLevel ==
  /\ pc = "resolve"
  /\ now \in Times
  /\ schedule \in Schedules
  /\ level = ""
  /\ resolvedAt = NoTime
  /\ runMode = "local"
  /\ cfg \in LevelConfigs(schedule)
  /\ comments \in LevelCommentLists
  /\ envIdx = 1
  /\ hasErrors = FALSE
  /\ allEnvData = <<>>
  /\ evalResult = NoEvaluation
  /\ pending = {}
  /\ backend = <<>>
  /\ report = NoReport
  /\ published = FALSE
  /\ runErr = "running"
  /\ data = NoData
  /\ peErr = ""
  /\ loadErr = ""
  /\ levelsAt = NoTime
  /\ evalErr = ""
  /\ cancelled = FALSE
  /\ HarnessIdle

\* A call of determineEnforcementLevel, evaluator.go:231-255.
ResolveLevel ==
  /\ pc = "resolve"
  /\ level' = determineEnforcementLevel(schedule, now)
  /\ resolvedAt' = now
  /\ UNCHANGED <<schedule, now>>
  /\ UNCHANGED harnessVars
  /\ UNCHANGED runVars
  /\ UNCHANGED evaluatorVars

\* A call of Evaluator.LoadAndValidate, evaluator.go:57-90; filesExist tells
\* whether every policy file and its test file are found.
EvaluatorLoadAndValidate ==
  /\ pc = "resolve"
  /\ loadErr = ""
  /\ \E filesExist \in BOOLEAN :
       loadErr' = IF ~ValidateComplianceConfig(cfg) THEN "invalid compliance config"
                  ELSE IF ~filesExist THEN "file not found"
                  ELSE "nil"
  /\ UNCHANGED <<data, peErr, levelsAt, evalErr, now>>
  /\ UNCHANGED levelVars
  /\ UNCHANGED harnessVars
  /\ UNCHANGED runVars

\* A call of PolicyEvaluator.LoadAndValidate, part_013:423-466, on a new
\* PolicyEvaluator: the policies are visited in the order of the map
\* iteration, missing holds the policies whose file or test file is not
\* found.
PolicyEvaluatorLoadAndValidate ==
  /\ pc = "resolve"
  /\ peErr = ""
  /\ IF ~validateComplianceConfig(cfg)
       THEN peErr' = "invalid compliance config" /\ UNCHANGED data
       ELSE \E order \in Orders(DOMAIN cfg), missing \in SUBSET DOMAIN cfg :
              LET r == LoadLoop(order, missing, cfg, data.overrideCmdToPolicyId)
              IN /\ peErr' = r.err
                 /\ data' = [data EXCEPT !.overrideCmdToPolicyId = r.overrideCmdToPolicyId]
  /\ UNCHANGED <<loadErr, levelsAt, evalErr, now>>
  /\ UNCHANGED levelVars
  /\ UNCHANGED harnessVars
  /\ UNCHANGED runVars

\* A call of PolicyEvaluator.DetermineEnforcementLevel, part_013:639-671, on a
\* loaded PolicyEvaluator, with the bodies of the comments.
DetermineLevels ==
  /\ pc = "resolve"
  /\ peErr = "nil"
  /\ data' = [data EXCEPT !.policyIdToLevel =
                DetermineEnforcementLevel(data.policyIdToLevel, data.overrideCmdToPolicyId,
                                          cfg, [i \in 1..Len(comments) |-> comments[i].Body],
                                          now)]
  /\ levelsAt' = now
  /\ UNCHANGED <<peErr, loadErr, evalErr, now>>
  /\ UNCHANGED levelVars
  /\ UNCHANGED harnessVars
  /\ UNCHANGED runVars

\* A call of PolicyEvaluator.Evaluate, part_013:523-565, on a loaded
\* PolicyEvaluator: write the manifest to a temporary file, which can fail,
\* then check every policy. backend records what the check backend answers
\* for each policy of the environment.
PolicyEvaluatorEvaluate ==
  /\ pc = "resolve"
  /\ peErr = "nil"
  /\ evalErr = ""
  /\ \E tmpFileWritten \in BOOLEAN, order \in Orders(DOMAIN cfg),
        outs \in [DOMAIN cfg -> BackendOutcomes] :
       /\ backend' = (Environments[1] :> outs)
       /\ IF ~tmpFileWritten
            THEN evalErr' = "failed to write manifest to temp file" /\ UNCHANGED data
            ELSE LET r == EvaluateLoop(order, outs, data.evalFailMsgOfPolicy)
                 IN /\ evalErr' = r.err
                    /\ data' = [data EXCEPT !.evalFailMsgOfPolicy = r.evalFailMsgOfPolicy]
  /\ UNCHANGED <<peErr, loadErr, levelsAt, now>>
  /\ UNCHANGED levelVars
  /\ UNCHANGED harnessVars
  /\ UNCHANGED <<pc, runMode, cfg, comments, envIdx, hasErrors, allEnvData,
                 evalResult, pending, report, published, runErr, cancelled>>

NextLevel ==
  \/ ResolveLevel
  \/ PolicyEvaluatorEvaluate
  \/ EvaluatorLoadAndValidate
  \/ PolicyEvaluatorLoadAndValidate
  \/ DetermineLevels
  \/ Tick

SpecLevel == InitLevel /\ [][NextLevel]_vars

Next ==
  \/ Tick
  \/ LoadAndValidate
  \/ FetchPullRequest
  \/ BeginEnvironment
  \/ EvaluatePolicy
  \/ FinishEnvironment
  \/ GenerateCombinedReport
  \/ OutputResults

\* main starts run with the context of the command (main.go:58, 73-75), which
\* nothing cancels.
Spec == Init /\ [][Next]_vars

\* A configuration file in which the policies share one display name: the
\* loader only asks for a name that is not empty (config.go:52-54).
WithSharedName(config) ==
  [id \in DOMAIN config |-> [config[id] EXCEPT !.Name = PolicyNames["p1"]]]

\* run started on such a configuration file.
InitSharedName ==
  /\ pc = "load"
  /\ now = 1
  /\ runMode \in {"github", "local"}
  /\ cfg \in { WithSharedName(c) :
                 c \in { d \in [PolicyIDs -> UNION {PolicyConfigs(id) : id \in PolicyIDs}] :
                          \A id \in PolicyIDs : d[id] \in PolicyConfigs(id) } }
  /\ comments = <<>>
  /\ envIdx = 1
  /\ hasErrors = FALSE
  /\ allEnvData = <<>>
  /\ evalResult = NoEvaluation
  /\ pending = {}
  /\ backend = <<>>
  /\ report = NoReport
  /\ published = FALSE
  /\ runErr = "running"
  /\ schedule = [InEffectAfter |-> NoTime, IsWarningAfter |-> NoTime, IsBlockingAfter |-> NoTime]
  /\ level = ""
  /\ resolvedAt = NoTime
  /\ data = NoData
  /\ peErr = ""
  /\ loadErr = ""
  /\ levelsAt = NoTime
  /\ evalErr = ""
  /\ cancelled = FALSE
  /\ HarnessIdle

SpecSharedName == InitSharedName /\ [][Next]_vars

\* run of run.go over the runners: the steps of run of main.go, with the
\* results of the environments kept in a map.
NextRunner ==
  \/ Tick
  \/ LoadAndValidate
  \/ FetchPullRequest
  \/ BeginEnvironment
  \/ EvaluatePolicy
  \/ FinishEnvironment
  \/ RunnerGenerateReport
  \/ OutputResults

SpecRunner == Init /\ [][NextRunner]_vars

\* run called with a context its caller can cancel.
NextCancel ==
  \/ Next
  \/ Cancel

SpecCancel == Init /\ [][NextCancel]_vars

\* ------------------------------------------------------------- properties
\* run returned after the report went out: its error is the final decision.
DecisionMade == pc = "done" /\ published

\* The final decision blocks / warns: what run returned.
shouldBlock == runErr = "blocking policy failures detected"
shouldWarn == runErr = "warning policy failures detected"

\* The override set of the run.
OverrideSet == CheckOverrides(comments, cfg)

\* The PolicyResults of the i-th processed environment.
ResultsOf(i) == allEnvData[i].evalResult.PolicyResults

\* The i-th processed environment has a FAIL outcome of a policy at level lvl
\* that is not in the override set.
HasFailureAt(i, lvl) ==
  \E k \in 1..Len(ResultsOf(i)) :
    /\ ResultsOf(i)[k].Status = "FAIL"
    /\ ResultsOf(i)[k].Level = lvl
    /\ ResultsOf(i)[k].PolicyID \notin OverrideSet

\* What the check backend answers for the k-th result of the i-th environment.
AnswerOf(i, k) == backend[allEnvData[i].environment][ResultsOf(i)[k].PolicyID]

\* The omitted tally of a policy report: the FAIL details that are overridden
\* or whose level is not in effect.
Omitted(policyReport) ==
  LET IsOmitted(d) == d.Status = "FAIL" /\ (d.Overridden \/ d.Level = POLICY_LEVEL_DISABLED)
  IN CountIf(policyReport.Details, IsOmitted)

\* The failures of a policy report that are not omitted, all levels together.
NonOmittedFailed(policyReport) ==
  policyReport.BlockingFailures + policyReport.WarningFailures
    + policyReport.RecommendFailures

\* C1: once the run has returned its decision, it blocks if and only if some
\* processed environment has a FAIL outcome of a BLOCK-level policy that is
\* not in the override set.
C1_ShouldBlockIff ==
  DecisionMade =>
    (shouldBlock <=> \E i \in 1..Len(allEnvData) : HasFailureAt(i, "BLOCK"))

\* C1 witness: the run blocks because of its second environment only.
C1_Witness ==
  /\ DecisionMade /\ shouldBlock
  /\ Len(allEnvData) = 2
  /\ ~HasFailureAt(1, "BLOCK")
  /\ HasFailureAt(2, "BLOCK")

C3_DecisionOnlyAfterAllEnvironments ==
  DecisionMade =>
    /\ ~hasErrors
    /\ [i \in 1..Len(allEnvData) |-> allEnvData[i].environment] = Environments

C5_OverriddenFailureNotInFailedTally ==
  \A i \in 1..Len(allEnvData) :
    \A k \in 1..Len(ResultsOf(i)) :
      (ResultsOf(i)[k].Status = "FAIL" /\ ResultsOf(i)[k].PolicyID \in OverrideSet)
        => /\ Omitted(allEnvData[i].policyReport) >= 1
           /\ allEnvData[i].policyReport.FailedPolicies
                = NonOmittedFailed(allEnvData[i].policyReport)

C7_ErrorNeverBlocksOrWarns ==
  /\ \A i \in 1..Len(allEnvData) :
       (\A k \in 1..Len(ResultsOf(i)) : ResultsOf(i)[k].Status # "FAIL")
         => /\ ~allEnvData[i].enforcement.ShouldBlock
            /\ ~allEnvData[i].enforcement.ShouldWarn
  /\ ( /\ DecisionMade
       /\ \A i \in 1..Len(allEnvData) :
            \A k \in 1..Len(ResultsOf(i)) : ResultsOf(i)[k].Status # "FAIL" )
       => runErr = "nil"

\* C7 witness: the run passes although a BLOCK-level policy and a
\* WARNING-level policy ended in ERROR.
C7_Witness ==
  /\ DecisionMade /\ runErr = "nil"
  /\ \E i \in 1..Len(allEnvData) : \E k \in 1..Len(ResultsOf(i)) :
       ResultsOf(i)[k].Status = "ERROR" /\ ResultsOf(i)[k].Level = "BLOCK"
  /\ \E i \in 1..Len(allEnvData) : \E k \in 1..Len(ResultsOf(i)) :
       ResultsOf(i)[k].Status = "ERROR" /\ ResultsOf(i)[k].Level = "WARNING"

C9_ErrorDoesNotStopEvaluation ==
  \A i \in 1..Len(allEnvData) :
    /\ Len(ResultsOf(i)) = Cardinality(DOMAIN cfg)
    /\ {ResultsOf(i)[k].PolicyID : k \in 1..Len(ResultsOf(i))} = DOMAIN cfg
    /\ \A k \in 1..Len(ResultsOf(i)) :
         (ResultsOf(i)[k].Level # POLICY_LEVEL_DISABLED /\ ~AnswerOf(i, k).err)
           => ResultsOf(i)[k].Status =
                (IF AnswerOf(i, k).violations # <<>> THEN "FAIL" ELSE "PASS")

\* C9 witness: the check of the first policy errored and the second policy
\* still got its FAIL outcome.
C9_Witness ==
  \E i \in 1..Len(allEnvData) :
    /\ ResultsOf(i)[1].Status = "ERROR"
    /\ ResultsOf(i)[2].Status = "FAIL"

\* C9, for PolicyEvaluator.Evaluate: when the check of a policy failed, every
\* policy whose own check does not fail still has its outcome recorded.
C9_EvaluateGoesOnAfterError ==
  evalErr = "failed to evaluate policy" =>
    \A id \in DOMAIN cfg :
      ~backend[Environments[1]][id].err => id \in DOMAIN data.evalFailMsgOfPolicy

\* C10: the level is DISABLED (not in effect) whenever inEffectAfter is unset
\* or the instant of the call is before it, whatever the other timestamps.
C10_NotInEffectWhenUnsetOrEarly ==
  level # "" =>
    ( (schedule.InEffectAfter = NoTime \/ resolvedAt < schedule.InEffectAfter)
        => level = POLICY_LEVEL_DISABLED )

\* The level PolicyEvaluator.DetermineEnforcementLevel stored for p1, the
\* policy that carries the schedule.
policyLevel == data.policyIdToLevel["p1"]

\* C11: when inEffectAfter is set and reached at the instant of the call, the
\* level stored for the policy is BLOCK if blockingAfter is set and reached,
\* otherwise WARNING if warningAfter is set and reached, otherwise RECOMMEND.
C11_LevelWhenInEffect ==
  ( /\ levelsAt # NoTime
    /\ schedule.InEffectAfter # NoTime
    /\ levelsAt >= schedule.InEffectAfter )
    => policyLevel =
         ( IF schedule.IsBlockingAfter # NoTime /\ levelsAt >= schedule.IsBlockingAfter
             THEN "BLOCK"
           ELSE IF schedule.IsWarningAfter # NoTime /\ levelsAt >= schedule.IsWarningAfter
             THEN "WARNING"
           ELSE "RECOMMEND" )

\* C12: every call of the level resolution, for any schedule at any instant,
\* yields one of the four levels: not in effect, RECOMMEND, WARNING, BLOCK.
C12_LevelResolutionTotal ==
  /\ resolvedAt # NoTime =>
       level \in {"DISABLED", "RECOMMEND", "WARNING", "BLOCK"}
  /\ levelsAt # NoTime =>
       \A id \in DOMAIN cfg :
         data.policyIdToLevel[id] \in {"NOT_IN_EFFECT", "RECOMMEND", "WARNING", "BLOCK"}

\* The tier of a level: not in effect below RECOMMEND below WARNING below
\* BLOCK, and no level at all below every tier.
Tier(l) ==
  CASE l = "BLOCK" -> 4
    [] l = "WARNING" -> 3
    [] l = "RECOMMEND" -> 2
    [] l \in {"DISABLED", "NOT_IN_EFFECT"} -> 1
    [] OTHER -> 0

\* C13: for a schedule the loader accepts, a later call of the level
\* resolution never yields a lower tier than an earlier call did.
C13_LevelMonotonic ==
  [][ /\ ( /\ ValidateComplianceConfig(cfg)
           /\ resolvedAt # NoTime
           /\ resolvedAt' # NoTime )
         => Tier(level') >= Tier(level)
      /\ ( /\ levelsAt # NoTime
           /\ levelsAt' # NoTime )
         => \A id \in DOMAIN cfg :
              Tier(data'.policyIdToLevel[id]) >= Tier(data.policyIdToLevel[id]) ]_vars

\* Some comment body contains the override command of policy id, which is
\* not empty.
CommandInComments(id) ==
  /\ cfg[id].Enforcement.Override.Comment # <<>>
  /\ \E i \in 1..Len(comments) :
       Contains(comments[i].Body, cfg[id].Enforcement.Override.Comment)

\* C14: a policy is in the override set if and only if it has a non-empty
\* override command and some comment body contains that command as a
\* substring; for the PolicyEvaluator the override set is the set of policies
\* whose stored level is OVERRIDE.
C14_OverrideSetIffCommandInComments ==
  /\ \A id \in DOMAIN cfg :
       id \in CheckOverrides(comments, cfg) <=> CommandInComments(id)
  /\ levelsAt # NoTime =>
       \A id \in DOMAIN cfg :
         data.policyIdToLevel[id] = POLICY_LEVEL_OVERRIDE <=> CommandInComments(id)

\* The policies marked overridden in the i-th processed environment.
OverriddenIDs(i) ==
  {ResultsOf(i)[k].PolicyID : k \in {n \in 1..Len(ResultsOf(i)) : ResultsOf(i)[n].Overridden}}

\* C15: in one run every processed environment has the same policies marked
\* overridden, the override set of the run, and a failure of such a policy
\* blocks in none of them.
C15_OverrideSetSameInEveryEnvironment ==
  \A i \in 1..Len(allEnvData) :
    /\ OverriddenIDs(i) = OverrideSet
    /\ \A j \in 1..Len(allEnvData) : OverriddenIDs(i) = OverriddenIDs(j)
    /\ allEnvData[i].enforcement.ShouldBlock => HasFailureAt(i, "BLOCK")

\* C15 witness: a BLOCK-level policy is overridden in both environments,
\* fails in one and passes in the other, and neither environment blocks.
C15_Witness ==
  /\ Len(allEnvData) = 2
  /\ \E id \in OverrideSet :
       /\ \E k \in 1..Len(ResultsOf(1)) :
            /\ ResultsOf(1)[k].PolicyID = id
            /\ ResultsOf(1)[k].Status = "FAIL"
            /\ ResultsOf(1)[k].Level = "BLOCK"
            /\ ResultsOf(1)[k].Overridden
       /\ \E k \in 1..Len(ResultsOf(2)) :
            /\ ResultsOf(2)[k].PolicyID = id
            /\ ResultsOf(2)[k].Status = "PASS"
            /\ ResultsOf(2)[k].Overridden
  /\ ~allEnvData[1].enforcement.ShouldBlock
  /\ ~allEnvData[2].enforcement.ShouldBlock

\* The set timestamps of an EnforcementConfig are in order: inEffectAfter,
\* then isWarningAfter, then isBlockingAfter.
InOrder(e) ==
  /\ (e.InEffectAfter # NoTime /\ e.IsWarningAfter # NoTime)
       => e.InEffectAfter <= e.IsWarningAfter
  /\ (e.IsWarningAfter # NoTime /\ e.IsBlockingAfter # NoTime)
       => e.IsWarningAfter <= e.IsBlockingAfter
  /\ (e.InEffectAfter # NoTime /\ e.IsBlockingAfter # NoTime)
       => e.InEffectAfter <= e.IsBlockingAfter

\* C16: loading succeeds only if the set timestamps of every policy are in
\* order, isBlockingAfter against inEffectAfter included.
C16_LoadFailsWhenOutOfOrder ==
  /\ loadErr = "nil" => \A id \in DOMAIN cfg : InOrder(cfg[id].Enforcement)
  /\ peErr = "nil" => \A id \in DOMAIN cfg : InOrder(cfg[id].Enforcement)

\* Two policies of the configuration declare the same override command.
DuplicatedCommand ==
  \E id1, id2 \in DOMAIN cfg :
    /\ id1 # id2
    /\ cfg[id1].Enforcement.Override.Comment # <<>>
    /\ cfg[id1].Enforcement.Override.Comment = cfg[id2].Enforcement.Override.Comment

\* C17: loading succeeds only if no two policies declare the same override
\* command.
C17_LoadFailsOnDuplicatedCommand ==
  /\ loadErr = "nil" => ~DuplicatedCommand
  /\ peErr = "nil" => ~DuplicatedCommand

\* C18 as stated: when fetching the comments fails the run goes on and
\* still publishes a report and returns a decision.
C18_CommentFetchFailureDoesNotAbort ==
  runErr = "failed to get PR comments" => (pc # "done" \/ published)

\* C18 amended: when fetching the comments fails the run returns that error
\* at once: no environment is processed, no report is built or published and
\* no decision is made.
C18_CommentFetchFailureAborts ==
  runErr = "failed to get PR comments" =>
    /\ pc = "done"
    /\ allEnvData = <<>>
    /\ report = NoReport
    /\ ~published
    /\ ~DecisionMade

\* C18 witness: a github run whose comment fetch failed.
C18_Witness ==
  /\ runMode = "github"
  /\ runErr = "failed to get PR comments"
  /\ pc = "done"

\* C19: if the run is cancelled or times out before it completes, no report
\* is produced and no final decision is emitted.
C19_NoReportNoDecisionAfterCancellation ==
  cancelled => /\ ~published
               /\ ~DecisionMade

\* The decision over all the environments of the run: some environment's
\* enforcement blocks, or warns.
AnyShouldBlock == \E i \in 1..Len(allEnvData) : allEnvData[i].enforcement.ShouldBlock
AnyShouldWarn == \E i \in 1..Len(allEnvData) : allEnvData[i].enforcement.ShouldWarn

\* C20: once the decision is made the process exits with status 0 exactly
\* when neither shouldBlock nor shouldWarn holds, failures at RECOMMEND level
\* included, and with status 1 when shouldBlock or shouldWarn holds; and no
\* run exits with status 0 without such a decision.
C20_ExitStatusFollowsDecision ==
  /\ DecisionMade =>
       /\ (ExitStatus(runErr) = 0) <=> (~AnyShouldBlock /\ ~AnyShouldWarn)
       /\ (AnyShouldBlock \/ AnyShouldWarn) => ExitStatus(runErr) = 1
  /\ (pc = "done" /\ ExitStatus(runErr) = 0) =>
       (DecisionMade /\ ~AnyShouldBlock /\ ~AnyShouldWarn)

\* A run over both environments whose only failure is at RECOMMEND level
\* exits with status 0.
C20_Witness ==
  /\ DecisionMade
  /\ Len(allEnvData) = 2
  /\ \E i \in 1..2 : HasFailureAt(i, POLICY_LEVEL_RECOMMEND)
  /\ \A i \in 1..2 : ~HasFailureAt(i, POLICY_LEVEL_BLOCK) /\ ~HasFailureAt(i, POLICY_LEVEL_WARNING)
  /\ ExitStatus(runErr) = 0

\* The errors run returns for a failure of the tool itself, main.go:104-285:
\* the configuration does not load, GitHub refuses the token or the requests,
\* no environment could be built, the report cannot be rendered or put out.
ToolErrors ==
  { "failed to load policy config", "GitHub authentication failed",
    "failed to get PR info", "failed to get PR comments",
    "all environments failed", "failed to render comment",
    "failed to output report" }

\* C21: a run ended by a tool error exits with status 2, distinct from the
\* status 1 of a run ended by WARNING or BLOCKING policy failures.
C21_ToolErrorExitsWithTwo ==
  (pc = "done" /\ runErr \in ToolErrors) =>
    /\ ExitStatus(runErr) = 2
    /\ ExitStatus(runErr) # ExitStatus("blocking policy failures detected")
    /\ ExitStatus(runErr) # ExitStatus("warning policy failures detected")

\* The positions, in the order the caller requested the environments, of the
\* environments the report lists.
RequestedPosition(e) == CHOOSE i \in 1..Len(Environments) : Environments[i] = e

\* C22: the report lists the environments in the order in which the caller
\* requested them.
C22_ReportKeepsRequestedOrder ==
  \A i, j \in 1..Len(report.Environments) :
    i < j => RequestedPosition(report.Environments[i])
               < RequestedPosition(report.Environments[j])

\* The number of failures of environment i at the given level that no
\* override suppresses.
FailuresAt(i, lvl) ==
  Cardinality({ k \in 1..Len(ResultsOf(i)) :
                  /\ ResultsOf(i)[k].Status = "FAIL"
                  /\ ResultsOf(i)[k].Level = lvl
                  /\ ResultsOf(i)[k].PolicyID \notin OverrideSet })

\* C23: the summary of a decision reports the count of blocking failures
\* when the decision blocks, otherwise the count of warning failures when it
\* warns, otherwise that all checks passed.
C23_SummaryReportsDominantCount ==
  \A i \in 1..Len(allEnvData) :
    allEnvData[i].enforcement.Summary =
      IF FailuresAt(i, "BLOCK") > 0
        THEN <<FailuresAt(i, "BLOCK"), "blocking policy failure(s)">>
      ELSE IF FailuresAt(i, "WARNING") > 0
        THEN <<FailuresAt(i, "WARNING"), "warning policy failure(s)">>
      ELSE <<0, "All checks passed">>

\* An environment with one blocking and one warning failure: the summary
\* reports the blocking failure.
C23_Witness ==
  \E i \in 1..Len(allEnvData) :
    /\ FailuresAt(i, "BLOCK") = 1
    /\ FailuresAt(i, "WARNING") = 1
    /\ allEnvData[i].enforcement.Summary = <<1, "blocking policy failure(s)">>

\* The highest ID among the comments of the pull request carrying the marker.
LatestToolComment ==
  CHOOSE id \in {prComments[i].ID : i \in ToolComments(prComments)} :
    \A i \in ToolComments(prComments) : prComments[i].ID <= id

\* C24: when several comments of the pull request carry the marker,
\* FindToolComment returns the one with the highest ID.
C24_FindToolCommentReturnsLatest ==
  (Cardinality(ToolComments(prComments)) > 1 /\ postErr = "") =>
    /\ (found.called /\ ~found.err) => found.comment = LatestToolComment
    /\ (clientFound.called /\ ~clientFound.err) => clientFound.comment = LatestToolComment

\* C25: posting the report to a pull request that has a comment of the tool
\* updates that comment and creates none; a comment is created only when the
\* pull request has no comment of the tool.
C25_ExistingCommentUpdatedNotDuplicated ==
  [][ (postErr = "" /\ postErr' = "nil") =>
        IF ToolComments(prComments) # {}
          THEN /\ Len(prComments') = Len(prComments)
               /\ \E i \in ToolComments(prComments) : prComments'[i].Body = finalComment
        ELSE Len(prComments') = Len(prComments) + 1 ]_vars

\* C26: every one of the concurrent calls of Diff on the shared Differ whose
\* before and after manifests differ returns no error and a diff that is not
\* empty, the diff of its own two manifests.
C26_ConcurrentDiffsSucceed ==
  \A g \in DOMAIN diffPc :
    (diffPc[g] \in {"ran", "returned"} /\ diffIn[g].before # diffIn[g].after) =>
      /\ diffOut[g].err = "nil"
      /\ diffOut[g].diff # <<>>
      /\ diffOut[g].diff = DiffOutput(diffIn[g].before, diffIn[g].after)

\* Two calls with differing manifests ran while the files of both were in the
\* directory, and both have returned.
C26_Witness ==
  /\ DOMAIN diffPc = DiffCalls
  /\ \A g \in DiffCalls :
       /\ diffPc[g] = "returned"
       /\ diffIn[g].before # diffIn[g].after
       /\ diffOut[g].diff # <<>>
  /\ diffFiles[1].beforeFile # diffFiles[2].beforeFile
  /\ diffIn[1] # diffIn[2]

\* C27: within a run every policy has one enforcement level: the results of
\* a policy carry the same level in every processed environment, wherever
\* the clock stands when each environment is evaluated.
C27_OneLevelPerPolicyInARun ==
  \A i, j \in 1..Len(allEnvData) :
    \A k \in 1..Len(ResultsOf(i)), l \in 1..Len(ResultsOf(j)) :
      ResultsOf(i)[k].PolicyID = ResultsOf(j)[l].PolicyID
        => ResultsOf(i)[k].Level = ResultsOf(j)[l].Level

\* The override command of policy id is the whole body of one of the
\* comments.
CommandIsComment(id) ==
  /\ cfg[id].Enforcement.Override.Comment # <<>>
  /\ \E i \in 1..Len(comments) : comments[i].Body = cfg[id].Enforcement.Override.Comment

\* C28: once PolicyEvaluator.DetermineEnforcementLevel has returned, every
\* policy whose override command appears in the comments it was given has
\* the level OVERRIDE, not the level its schedule gives.
C28_OverriddenPolicyHasLevelOverride ==
  levelsAt # NoTime =>
    \A id \in DOMAIN cfg :
      CommandIsComment(id) => data.policyIdToLevel[id] = POLICY_LEVEL_OVERRIDE

\* C29: every loaded policy has its own row in the matrix of the combined
\* report: the report has as many rows as the configuration has policies,
\* also when policies share a display name.
C29_OneRowPerPolicy ==
  report # NoReport => Cardinality(report.Policies) = Cardinality(DOMAIN cfg)

\* C30: a goroutine of fetchAndSetPullRequestInfo that has reached its
\* channel send gets past it, also when the function has returned early on a
\* failed fetch of the pull request or on a cancelled context.
C30_FetchersNeverBlockOnSend ==
  \A g \in Fetchers : (pc = "fetchInfo" /\ fetchers[g].pc = "send") ~> (fetchers[g].pc = "done")

\* The function returned early and a goroutine has sent its result all the
\* same: the result stays in the buffer of its channel.
C30_Witness ==
  /\ pc = "fetchInfo"
  /\ fetchPc = "returned"
  /\ fetchRet.err \in {"failed to get PR info", "PR fetch cancelled"}
  /\ \A g \in Fetchers : fetchers[g].pc = "done"
  /\ chans["comments"] # <<>>

====
